---------------------------- MODULE Spec2Model ----------------------------
(***************************************************************************)
(* State-machine model of the PAA agentic RAG chat application             *)
(* (src/streamlit_app.py): the Streamlit script run, the cached setup and  *)
(* ingestion, the three retrieval tools, generate_answer_with_llm and      *)
(* orchestrator_agent, plus the flight-identifier extraction performed by  *)
(* query_flight_status on bounded character strings.                       *)
(***************************************************************************)
EXTENDS Integers, Sequences, FiniteSets, TLC

(***************************************************************************)
(* Bounds of the model.                                                    *)
(***************************************************************************)
MaxLen == 5       \* longest query text enumerated for the extraction
MaxPrompts == 1   \* prompts handled in one session
MaxCalls == 2     \* function calls in one routing response
WipeCap == 2      \* executions of the schema setup that are told apart

None == "None"       \* Python's None, for string-valued fields
NoMatch == << >>     \* re.search returned None: no flight identifier

(***************************************************************************)
(* Characters.  A text is a sequence of one-character strings.  "U+06F2"   *)
(* stands for the single character EXTENDED ARABIC-INDIC DIGIT TWO, a      *)
(* Unicode decimal digit (category Nd) that is not an ASCII digit.         *)
(***************************************************************************)
LowerCase == <<"a","b","c","d","e","f","g","h","i","j","k","l","m",
               "n","o","p","q","r","s","t","u","v","w","x","y","z">>
UpperCase == <<"A","B","C","D","E","F","G","H","I","J","K","L","M",
               "N","O","P","Q","R","S","T","U","V","W","X","Y","Z">>
AsciiDigits == {"0","1","2","3","4","5","6","7","8","9"}
UnicodeDigits == AsciiDigits \cup {"U+06F2"}

\* str.upper() on one character: ASCII lower-case letters are mapped to
\* upper case, digits, separators and upper-case letters are unchanged.
UpperChar(c) ==
    IF \E i \in 1..26 : LowerCase[i] = c
    THEN UpperCase[CHOOSE i \in 1..26 : LowerCase[i] = c]
    ELSE c

\* query.upper()
Upper(s) == [i \in 1..Len(s) |-> UpperChar(s[i])]

\* the regex class [A-Z]
IsAZ(c) == \E i \in 1..26 : UpperCase[i] = c

\* the regex class \d of a str pattern: any Unicode decimal digit
IsDigitClass(c) == c \in UnicodeDigits

\* number of consecutive \d characters of s starting at position i, at most 4
\* (the greedy quantifier {2,4})
RECURSIVE DigitRun(_, _, _)
DigitRun(s, i, n) ==
    IF n < 4 /\ i <= Len(s) /\ IsDigitClass(s[i])
    THEN DigitRun(s, i + 1, n + 1)
    ELSE n

\* the pattern [A-Z]{2}\d{2,4} matches s at position i
MatchAt(s, i) ==
    /\ i + 3 <= Len(s)
    /\ IsAZ(s[i])
    /\ IsAZ(s[i + 1])
    /\ DigitRun(s, i + 2, 0) >= 2

\* re.search(r'([A-Z]{2}\d{2,4})', s): group(1) of the leftmost match, or
\* NoMatch
RegexSearch(s) ==
    IF \E i \in 1..Len(s) : MatchAt(s, i)
    THEN LET i == CHOOSE j \in 1..Len(s) :
                    MatchAt(s, j) /\ \A k \in 1..(j - 1) : ~MatchAt(s, k)
         IN  SubSeq(s, i, i + 1 + DigitRun(s, i + 2, 0))
    ELSE NoMatch

\* target_flight_num of query_flight_status: the filter value, or NoMatch
\* when no filter is added to the search
ExtractFlightNum(query) == RegexSearch(Upper(query))

(***************************************************************************)
(* The state.                                                              *)
(***************************************************************************)
VARIABLES
    text,             \* extraction: the query text under test
    uppered,          \* extraction: query.upper(), or NoMatch before it ran
    extracted,        \* extraction: target_flight_num, or NoMatch
    xpc,              \* extraction: "off", "input", "upper", "done"
    setupCached,      \* st.cache_resource holds setup_weaviate_client's value
    ingestCached,     \* st.cache_resource holds ingest_all_data's value
    WEAVIATE_CLIENT,  \* the module-level global: None or "client"
    store,            \* the vector store: collection name -> set of objects
    wipes,            \* times this process deleted and re-created the
                      \* collections, counted up to WipeCap
    messages,         \* st.session_state.messages (<< >>: key not yet set)
    inputShown,       \* st.chat_input was rendered by a completed run
    lastOutcome,      \* history: what the previous answered prompt of the
                      \* session consulted and found (SpecTwice only)
    pc,               \* position of the script run
    prompt,           \* the prompt of this run, or NoMatch (no prompt)
    functionCalls,    \* response.function_calls of the routing call
    respText,         \* response.text of the routing call is non-blank
    idx,              \* position of the tool loop in functionCalls
    retrieved_chunks, \* orchestrator_agent's retrieved_chunks
    tools_used,       \* orchestrator_agent's tools_used
    llmCalls,         \* LLM calls issued for this prompt, per call site
    llmFailed,        \* an LLM call raised while this prompt was handled
    toolRuns,         \* retrieval tools invoked for this prompt, in order
    grounding,        \* tool outputs handed to the answer-generating call
    exc,              \* exception propagating out of orchestrator_agent
    answer,           \* final_answer / full_response kind
    textLen,          \* chunking: len(text) of the text to be chunked
    site,             \* chunking: the chunking expression applied
    chunked,          \* chunking: the list chunks, as slices [from, to)
    cpc,              \* chunking: "off", "input", "done"
    script,           \* the admin script this process runs, or "none"
    apc,              \* position of the admin script run
    client,           \* the run's store client: "none", "open", "closed"
    closes,           \* client.close() calls of the run
    exitPath,         \* history: how the run left the button handler
    lateOp,           \* history: a store operation was issued on a client
                      \* that was not open
    astore,           \* the vector store the admin scripts write:
                      \* collection name -> [exists, objects]
    processed_links,  \* web: st.session_state.processed_links
    selected_urls,    \* web: the ticked urls, in display order
    delete_existing,  \* web: the "Delete existing Web Data" checkbox
    batch_size,       \* web: the "Links per Batch" slider
    linkIdx,          \* web: links of selected_urls the loop is through
    xmlFile,          \* ingest: flight_records.xml: [exists, blocks]
    collIdx,          \* ingest: collections of target_colls wiped so far
    blocks,           \* ingest: the blocks re.findall returned
    success_count,    \* ingest: success_count
    summaries,        \* ingest: history: block and f_id of every insert
    record,           \* xml: the record parse_xml_file built last
    selected,         \* docs: the files picked in the multiselect
    fileIdx           \* docs: files of selected the loop is through

chunkvars == <<textLen, site, chunked, cpc>>
runvars == <<script, apc, client, closes, exitPath, lateOp, astore>>
webvars == <<processed_links, selected_urls, delete_existing, batch_size,
             linkIdx>>
\* the variables of the admin scripts
ingvars == <<xmlFile, collIdx, blocks, success_count, summaries>>
docvars == <<selected, fileIdx>>
adminvars == <<chunkvars, runvars, webvars, ingvars, record, docvars>>
\* the variables the chat application leaves alone
xvars == <<text, uppered, extracted, xpc, adminvars>>
procvars == <<setupCached, ingestCached, WEAVIATE_CLIENT, store, wipes>>
sessvars == <<messages, inputShown, lastOutcome>>
qvars == <<functionCalls, respText, idx, retrieved_chunks, tools_used,
           llmCalls, llmFailed, toolRuns, grounding, exc, answer>>
vars == <<xvars, procvars, sessvars, pc, prompt, qvars>>

(***************************************************************************)
(* Queries and stored data.                                                *)
(***************************************************************************)
QHi == <<"h","i">>
QPk234 == <<"p","k","2","3","4">>
QEk601 == <<"e","k","6","0","1">>
QSvDash726 == <<"S","V","-","7","2","6">>
Queries == {QHi, QPk234, QEk601, QSvDash726}

\* queries that are only a greeting
Greetings == {QHi}

\* the objects ingest_all_data writes when a source is read successfully;
\* "content" is a sequence of words
PolicyObjects ==
    {[content |-> <<"Cabin", "allowance", "is", "7kg.">>,
      source |-> "policy_baggage.pdf"],
     [content |-> <<"Report", "bags", "that", "are", "not", "found.">>,
      source |-> "policy_baggage.pdf"]}
FlightObject(f) ==
    [content |-> <<"The operational status code is", "SH.">>,
     flight_num |-> f, status |-> "SH"]
FlightObjects ==
    {FlightObject(<<"P","K","2","3","4">>),
     FlightObject(<<"S","V","7","2","6">>)}
WebObjects ==
    {[content |-> <<"Lost", "baggage", "complaint", "form">>,
      url_href |-> "https://paa.gov.pk/"]}

Collections == {"PAAPolicy", "PAAFlightStatus", "PAAWebLink"}
EmptyStore == [c \in Collections |-> {}]

(***************************************************************************)
(* The vector store and the retrieval tools.                               *)
(***************************************************************************)
NoFilter == << >>    \* search_kwargs has no "filters" entry

\* collection.query.near_vector(..., limit=1[, filters=equal(flight_num, f)]):
\* the possible values of response.objects.  The nearest object is decided
\* by the embedding, which is opaque: any object passing the filter.
NearVector(coll, filter) ==
    LET pass == {o \in store[coll] :
                    filter = NoFilter \/ o.flight_num = filter}
    IN  IF pass = {} THEN {<< >>} ELSE {<<o>> : o \in pass}

\* one store query as the tool issued it
StoreCall(coll, filter, objects, raised) ==
    [coll |-> coll, filter |-> filter, objects |-> objects, raised |-> raised]

\* a tool's return value: the store's response.objects it was built from and
\* the words of the returned string
Chunk(tool, objects, words) ==
    [tool |-> tool, objects |-> objects, words |-> words]
NoChunk == Chunk("", << >>, << >>)

\* one run of a tool: the exception it raised ("none" when it returned),
\* its return value and the store queries it issued
ToolRun(tool, raised, out, calls) ==
    [tool |-> tool, raised |-> raised, out |-> out, calls |-> calls]

\* client = WEAVIATE_CLIENT; client.collections.get(...) on None raises
\* AttributeError before any store query
NoClientRun(tool) == ToolRun(tool, "AttributeError", NoChunk, << >>)

\* the store query itself raises
StoreErrorRun(tool, coll, filter) ==
    ToolRun(tool, "StoreError", NoChunk,
            <<StoreCall(coll, filter, << >>, TRUE)>>)

\* query_policy_and_baggage as it would be if it passed the flight filter of
\* query_flight_status along with its search.
query_policy_and_baggage_filtered(query) ==
    LET tool == "query_policy_and_baggage"
        filter == ExtractFlightNum(query) IN
    IF WEAVIATE_CLIENT = None THEN {NoClientRun(tool)}
    ELSE {StoreErrorRun(tool, "PAAPolicy", filter)} \cup
         {ToolRun(tool, "none",
                  IF objs # << >>
                  THEN Chunk(tool, objs,
                             <<"Policy Context (Source:", objs[1].source, "):">>
                                \o objs[1].content)
                  ELSE Chunk(tool, objs,
                             <<"Policy Context: No relevant policy", "found.">>),
                  <<StoreCall("PAAPolicy", filter, objs, FALSE)>>)
            : objs \in NearVector("PAAPolicy", NoFilter)}

\* The possible runs of query_policy_and_baggage(query).
query_policy_and_baggage(query) ==
    LET tool == "query_policy_and_baggage" IN
    IF WEAVIATE_CLIENT = None THEN {NoClientRun(tool)}
    ELSE {StoreErrorRun(tool, "PAAPolicy", NoFilter)} \cup
         {ToolRun(tool, "none",
                  IF objs # << >>
                  THEN Chunk(tool, objs,
                             <<"Policy Context (Source:", objs[1].source, "):">>
                                \o objs[1].content)
                  ELSE Chunk(tool, objs,
                             <<"Policy Context: No relevant policy", "found.">>),
                  <<StoreCall("PAAPolicy", NoFilter, objs, FALSE)>>)
            : objs \in NearVector("PAAPolicy", NoFilter)}

\* query_flight_status as it would be with a similarity search issued after
\* the filtered one, whatever the filtered one returned.
query_flight_status_requeried(query) ==
    LET tool == "query_flight_status"
        filter == ExtractFlightNum(query) IN
    IF WEAVIATE_CLIENT = None THEN {NoClientRun(tool)}
    ELSE {ToolRun(tool, "none",
                  IF again # << >>
                  THEN Chunk(tool, again,
                             <<"Flight Context (Flight:", "Status:",
                               again[1].status, "):">> \o again[1].content)
                  ELSE Chunk(tool, again,
                             <<"Flight Context: No relevant flight status",
                               "found.">>),
                  <<StoreCall("PAAFlightStatus", filter, objs, FALSE),
                    StoreCall("PAAFlightStatus", NoFilter, again, FALSE)>>)
            : objs \in NearVector("PAAFlightStatus", filter),
              again \in NearVector("PAAFlightStatus", NoFilter)}

\* The possible runs of query_flight_status(query): one near_vector query,
\* filtered on flight_num when the regex matched.
query_flight_status(query) ==
    LET tool == "query_flight_status"
        filter == ExtractFlightNum(query) IN
    IF WEAVIATE_CLIENT = None THEN {NoClientRun(tool)}
    ELSE {StoreErrorRun(tool, "PAAFlightStatus", filter)} \cup
         {ToolRun(tool, "none",
                  IF objs # << >>
                  THEN Chunk(tool, objs,
                             <<"Flight Context (Flight:", "Status:",
                               objs[1].status, "):">> \o objs[1].content)
                  ELSE Chunk(tool, objs,
                             <<"Flight Context: No relevant flight status",
                               "found.">>),
                  <<StoreCall("PAAFlightStatus", filter, objs, FALSE)>>)
            : objs \in NearVector("PAAFlightStatus", filter)}

\* The possible runs of query_web_links_and_forms(query).
query_web_links_and_forms(query) ==
    LET tool == "query_web_links_and_forms" IN
    IF WEAVIATE_CLIENT = None THEN {NoClientRun(tool)}
    ELSE {StoreErrorRun(tool, "PAAWebLink", NoFilter)} \cup
         {ToolRun(tool, "none",
                  IF objs # << >>
                  THEN Chunk(tool, objs,
                             <<"Web Context (URL:", objs[1].url_href, "):">>
                                \o objs[1].content)
                  ELSE Chunk(tool, objs,
                             <<"Web Context: No relevant form or link",
                               "found.">>),
                  <<StoreCall("PAAWebLink", NoFilter, objs, FALSE)>>)
            : objs \in NearVector("PAAWebLink", NoFilter)}

\* tool_map of orchestrator_agent
ToolNames == {"query_policy_and_baggage", "query_flight_status",
              "query_web_links_and_forms"}
tool_map(name, query) ==
    CASE name = "query_policy_and_baggage" -> query_policy_and_baggage(query)
      [] name = "query_flight_status" -> query_flight_status(query)
      [] name = "query_web_links_and_forms" -> query_web_links_and_forms(query)

\* function_name.replace("query_", "").replace("_", " ").title()
ToolLabel(name) ==
    CASE name = "query_policy_and_baggage" -> "Policy And Baggage"
      [] name = "query_flight_status" -> "Flight Status"
      [] name = "query_web_links_and_forms" -> "Web Links And Forms"

\* chunk.endswith("found.")
EndsWithFound(chunk) ==
    chunk.words # << >> /\ chunk.words[Len(chunk.words)] = "found."

\* the chunks generate_answer_with_llm joins into context_text
ContextChunks(chunks) == SelectSeq(chunks, LAMBDA c : ~EndsWithFound(c))

(***************************************************************************)
(* Initial state: a fresh process and a fresh session, nothing cached.     *)
(***************************************************************************)
NoCalls == [route |-> 0, final |-> 0, gen |-> 0]

QueryInit ==
    /\ functionCalls = << >>
    /\ respText = FALSE
    /\ idx = 1
    /\ retrieved_chunks = << >>
    /\ tools_used = << >>
    /\ llmCalls = NoCalls
    /\ llmFailed = FALSE
    /\ toolRuns = << >>
    /\ grounding = << >>
    /\ exc = "none"
    /\ answer = None

\* the retrieval outcome of one prompt: the collections queried and those
\* in which something was found, with the query, the store and the routing
\* response they belong to
Outcome(q, st, calls, txt, runs) ==
    [query |-> q, store |-> st, calls |-> calls, text |-> txt,
     consulted |-> {runs[i].calls[1].coll :
                       i \in {j \in DOMAIN runs : runs[j].calls # << >>}},
     found |-> {runs[i].calls[1].coll :
                   i \in {j \in DOMAIN runs : runs[j].out.objects # << >>}}]
NoOutcome == Outcome(<< >>, EmptyStore, << >>, FALSE, << >>)

\* nothing is being chunked
ChunkRest ==
    /\ textLen = 0
    /\ site = "none"
    /\ chunked = << >>
    /\ cpc = "off"

\* a collection of the store the admin scripts write
Absent == [exists |-> FALSE, objects |-> {}]
Coll(objs) == [exists |-> TRUE, objects |-> objs]
AdminCollections == {"RAG2_Web", "PAAFlightStatus", "PAAWebLink", "PAAPolicy"}

\* the web admin before its first button press
WebRest ==
    /\ processed_links = {}
    /\ selected_urls = << >>
    /\ delete_existing = FALSE
    /\ batch_size = 5
    /\ linkIdx = 0

\* no run of an admin script is under way and none has connected
RunRest ==
    /\ apc = "idle"
    /\ client = "none"
    /\ closes = 0
    /\ exitPath = "none"
    /\ lateOp = FALSE

\* admin_ingest before its first button press, flight_records.xml missing
IngRest ==
    /\ collIdx = 0
    /\ blocks = << >>
    /\ success_count = 0
    /\ summaries = << >>
NoXmlFile == [exists |-> FALSE, blocks |-> << >>]

\* what the store holds before an admin script runs: the three collections
\* of the chat application with earlier data, no RAG2_Web
OldObject == [content |-> <<"o","l","d">>]
OldStore ==
    [c \in AdminCollections |->
        IF c = "RAG2_Web" THEN Absent ELSE Coll({OldObject})]

\* no record parsed yet
NoRecord == [carrier_icao |-> << >>, carrier_iata |-> << >>, carrier_name |-> ""]

\* the session state and widgets of the admin scripts before a button press
ScriptsRest ==
    /\ WebRest
    /\ IngRest
    /\ record = NoRecord
    /\ selected = << >>
    /\ fileIdx = 0

\* no admin script runs
AdminRest ==
    /\ ChunkRest
    /\ script = "none"
    /\ RunRest
    /\ astore = OldStore
    /\ xmlFile = NoXmlFile
    /\ ScriptsRest

AppInit ==
    /\ setupCached = FALSE
    /\ ingestCached = FALSE
    /\ WEAVIATE_CLIENT = None
    /\ store = EmptyStore
    /\ wipes = 0
    /\ messages = << >>
    /\ inputShown = FALSE
    /\ lastOutcome = NoOutcome
    /\ pc = "idle"
    /\ prompt = NoMatch
    /\ QueryInit

\* no extraction runs
XRest ==
    /\ text = << >>
    /\ uppered = NoMatch
    /\ extracted = NoMatch
    /\ xpc = "off"

Init ==
    /\ XRest
    /\ AdminRest
    /\ AppInit

UserCount(msgs) == Cardinality({i \in DOMAIN msgs : msgs[i].role = "user"})

(***************************************************************************)
(* The script run: module top level, cached setup and ingestion, session   *)
(* state and the chat input.                                               *)
(***************************************************************************)

\* A script run starts, with the prompt p submitted through st.chat_input or
\* with none.  The module top level executes WEAVIATE_CLIENT = None.
StartRun(p) ==
    /\ pc = "idle"
    /\ p # NoMatch => inputShown /\ UserCount(messages) < MaxPrompts
    /\ WEAVIATE_CLIENT' = None
    /\ prompt' = p
    /\ pc' = "setup"
    /\ UNCHANGED <<xvars, setupCached, ingestCached, store, wipes, sessvars,
                   qvars>>

\* The resource cache is cleared (Streamlit's "Clear cache" command): the
\* next run executes the bodies of the two cached functions again.
ClearCache ==
    /\ pc = "idle"
    /\ setupCached
    /\ setupCached' = FALSE
    /\ ingestCached' = FALSE
    /\ UNCHANGED <<xvars, WEAVIATE_CLIENT, store, wipes, sessvars, pc, prompt,
                   qvars>>

\* setup_weaviate_client() as it would be without the resource cache: the
\* body runs again and deletes and re-creates the collections
SetupNotCached ==
    /\ pc = "setup"
    /\ setupCached
    /\ store' = EmptyStore
    /\ wipes' = IF wipes < WipeCap THEN wipes + 1 ELSE wipes
    /\ WEAVIATE_CLIENT' = "client"
    /\ pc' = "ingest"
    /\ UNCHANGED <<xvars, setupCached, ingestCached, sessvars, prompt, qvars>>

\* setup_weaviate_client() served from the cache: its body does not run.
SetupCacheHit ==
    /\ pc = "setup"
    /\ setupCached
    /\ pc' = "ingest"
    /\ UNCHANGED <<xvars, procvars, sessvars, prompt, qvars>>

\* setup_weaviate_client() body: connect, delete and re-create the three
\* collections, set the global.
SetupBody ==
    /\ pc = "setup"
    /\ ~setupCached
    /\ store' = EmptyStore
    /\ wipes' = IF wipes < WipeCap THEN wipes + 1 ELSE wipes
    /\ WEAVIATE_CLIENT' = "client"
    /\ setupCached' = TRUE
    /\ pc' = "ingest"
    /\ UNCHANGED <<xvars, ingestCached, sessvars, prompt, qvars>>

\* setup_weaviate_client() body: the collections are deleted, then a
\* collections.create call raises; the exception reaches the script's outer
\* except clause, nothing is cached and the global is not set.
SetupCreateFail ==
    /\ pc = "setup"
    /\ ~setupCached
    /\ store' = EmptyStore
    /\ wipes' = IF wipes < WipeCap THEN wipes + 1 ELSE wipes
    /\ pc' = "idle"
    /\ prompt' = NoMatch
    /\ UNCHANGED <<xvars, setupCached, ingestCached, WEAVIATE_CLIENT, sessvars,
                   qvars>>

\* setup_weaviate_client() body: the connection fails, st.error and
\* st.stop() end the run; nothing is cached.
SetupFail ==
    /\ pc = "setup"
    /\ ~setupCached
    /\ pc' = "idle"
    /\ prompt' = NoMatch
    /\ UNCHANGED <<xvars, procvars, sessvars, qvars>>

\* ingest_all_data(client) served from the cache.
IngestCacheHit ==
    /\ pc = "ingest"
    /\ ingestCached
    /\ pc' = "session"
    /\ UNCHANGED <<xvars, procvars, sessvars, prompt, qvars>>

\* ingest_all_data(client) body: process_pdf, process_xml and
\* process_web_data each either insert their objects or fail silently
\* (except Exception: pass).
IngestBody ==
    /\ pc = "ingest"
    /\ ~ingestCached
    /\ \E pol \in {{}, PolicyObjects}, fl \in {{}, FlightObjects},
          web \in {{}, WebObjects} :
          store' = [store EXCEPT !["PAAPolicy"] = @ \cup pol,
                                 !["PAAFlightStatus"] = @ \cup fl,
                                 !["PAAWebLink"] = @ \cup web]
    /\ ingestCached' = TRUE
    /\ pc' = "session"
    /\ UNCHANGED <<xvars, setupCached, WEAVIATE_CLIENT, wipes, sessvars, prompt,
                   qvars>>

\* the greeting the history starts with
Greeting ==
    [role |-> "assistant", content |-> "Hello! I am the PAA Supervisor Agent."]

\* Session state is initialised on the session's first run, the history is
\* displayed and st.chat_input is rendered; without a prompt the run ends.
RenderChat ==
    /\ pc = "session"
    /\ messages' = IF messages = << >> THEN <<Greeting>> ELSE messages
    /\ inputShown' = TRUE
    /\ pc' = IF prompt = NoMatch THEN "idle" ELSE "handler"
    /\ UNCHANGED <<xvars, procvars, lastOutcome, prompt, qvars>>

\* The chat handler appends the user's entry and calls orchestrator_agent.
HandlerStart ==
    /\ pc = "handler"
    /\ messages' = Append(messages, [role |-> "user", content |-> prompt])
    /\ pc' = "route"
    /\ UNCHANGED <<xvars, procvars, inputShown, lastOutcome, prompt, qvars>>

(***************************************************************************)
(* orchestrator_agent.                                                     *)
(***************************************************************************)

\* the names a routing response may give its function calls: the three tools
\* and a name tool_map does not hold
CallNames == ToolNames \cup {"unknown_tool"}

RECURSIVE SeqsUpTo(_, _)
SeqsUpTo(S, n) ==
    IF n = 0 THEN {<< >>}
    ELSE LET shorter == SeqsUpTo(S, n - 1)
         IN  shorter \cup {Append(q, x) : q \in shorter, x \in S}

\* the routing call as it would be with one retry after a failure
RouteFailRetried ==
    /\ pc = "route"
    /\ llmCalls' = [llmCalls EXCEPT !.route = @ + 2]
    /\ llmFailed' = TRUE
    /\ answer' = "Gemini API call failed during orchestration."
    /\ tools_used' = <<"API Error">>
    /\ pc' = "respond"
    /\ UNCHANGED <<xvars, procvars, sessvars, prompt, functionCalls, respText,
                   idx, retrieved_chunks, toolRuns, grounding, exc>>

\* The routing call raises: orchestrator_agent returns the error text and
\* ["API Error"]; the call is not repeated.
RouteFail ==
    /\ pc = "route"
    /\ llmCalls' = [llmCalls EXCEPT !.route = @ + 1]
    /\ llmFailed' = TRUE
    /\ answer' = "Gemini API call failed during orchestration."
    /\ tools_used' = <<"API Error">>
    /\ pc' = "respond"
    /\ UNCHANGED <<xvars, procvars, sessvars, prompt, functionCalls, respText,
                   idx, retrieved_chunks, toolRuns, grounding, exc>>

\* The routing call returns a response with function calls fc and a text
\* that is blank or not.
RouteOk ==
    /\ pc = "route"
    /\ \E fc \in SeqsUpTo(CallNames, MaxCalls), txt \in BOOLEAN :
          /\ functionCalls' = fc
          /\ respText' = txt
          /\ pc' = IF fc # << >> THEN "tools" ELSE "fallback"
    /\ llmCalls' = [llmCalls EXCEPT !.route = @ + 1]
    /\ idx' = 1
    /\ UNCHANGED <<xvars, procvars, sessvars, prompt, retrieved_chunks,
                   tools_used, llmFailed, toolRuns, grounding, exc, answer>>

\* One iteration of the tool loop for a name in tool_map: the tool runs with
\* query_text; its output and its label are appended, or its exception
\* leaves orchestrator_agent.
ToolCallKnown ==
    /\ pc = "tools"
    /\ idx <= Len(functionCalls)
    /\ functionCalls[idx] \in ToolNames
    /\ \E run \in tool_map(functionCalls[idx], prompt) :
          /\ toolRuns' = Append(toolRuns, run)
          /\ IF run.raised = "none"
             THEN /\ retrieved_chunks' = Append(retrieved_chunks, run.out)
                  /\ tools_used' =
                        Append(tools_used, ToolLabel(functionCalls[idx]))
                  /\ idx' = idx + 1
                  /\ UNCHANGED <<exc, pc>>
             ELSE /\ exc' = run.raised
                  /\ pc' = "raised"
                  /\ UNCHANGED <<retrieved_chunks, tools_used, idx>>
    /\ UNCHANGED <<xvars, procvars, sessvars, prompt, functionCalls, respText,
                   llmCalls, llmFailed, grounding, answer>>

\* the iteration for a name tool_map does not hold as it would be if the
\* label were appended outside the "if function_to_call" block
ToolCallUnknownLabelled ==
    /\ pc = "tools"
    /\ idx <= Len(functionCalls)
    /\ functionCalls[idx] \notin ToolNames
    /\ idx' = idx + 1
    /\ tools_used' = Append(tools_used, "Unknown Tool")
    /\ UNCHANGED <<xvars, procvars, sessvars, pc, prompt, functionCalls,
                   respText, retrieved_chunks, llmCalls, llmFailed,
                   toolRuns, grounding, exc, answer>>

\* One iteration of the tool loop for a name tool_map does not hold: nothing
\* runs.
ToolCallUnknown ==
    /\ pc = "tools"
    /\ idx <= Len(functionCalls)
    /\ functionCalls[idx] \notin ToolNames
    /\ idx' = idx + 1
    /\ UNCHANGED <<xvars, procvars, sessvars, pc, prompt, functionCalls,
                   respText, retrieved_chunks, tools_used, llmCalls, llmFailed,
                   toolRuns, grounding, exc, answer>>

\* the end of the tool loop as it would be if the second LLM call were issued
\* as soon as one output is there
ToolsDoneEarly ==
    /\ pc = "tools"
    /\ idx > Len(functionCalls) \/ retrieved_chunks # << >>
    /\ pc' = IF retrieved_chunks # << >> THEN "final" ELSE "fallback"
    /\ UNCHANGED <<xvars, procvars, sessvars, prompt, qvars>>

\* The tool loop is over: with outputs the second LLM call follows, without
\* any the fallback.
ToolsDone ==
    /\ pc = "tools"
    /\ idx > Len(functionCalls)
    /\ pc' = IF retrieved_chunks # << >> THEN "final" ELSE "fallback"
    /\ UNCHANGED <<xvars, procvars, sessvars, prompt, qvars>>

\* The second LLM call, over messages: the prompt and every tool output.
FinalOk ==
    /\ pc = "final"
    /\ llmCalls' = [llmCalls EXCEPT !.final = @ + 1]
    /\ grounding' = retrieved_chunks
    /\ answer' = "final_response.text"
    /\ pc' = "respond"
    /\ UNCHANGED <<xvars, procvars, sessvars, prompt, functionCalls, respText,
                   idx, retrieved_chunks, tools_used, llmFailed, toolRuns, exc>>

\* The second LLM call raises; nothing in orchestrator_agent catches it.
FinalFail ==
    /\ pc = "final"
    /\ llmCalls' = [llmCalls EXCEPT !.final = @ + 1]
    /\ llmFailed' = TRUE
    /\ grounding' = retrieved_chunks
    /\ exc' = "LLMError"
    /\ pc' = "raised"
    /\ UNCHANGED <<xvars, procvars, sessvars, prompt, functionCalls, respText,
                   idx, retrieved_chunks, tools_used, toolRuns, answer>>

\* No tool output and the routing response has text: it is the answer.
FallbackDirect ==
    /\ pc = "fallback"
    /\ respText
    /\ answer' = "response.text"
    /\ tools_used' = <<"Direct LLM Response">>
    /\ pc' = "respond"
    /\ UNCHANGED <<xvars, procvars, sessvars, prompt, functionCalls, respText,
                   idx, retrieved_chunks, llmCalls, llmFailed, toolRuns,
                   grounding, exc>>

\* No tool output and no text: the policy tool runs as the default.
FallbackDefault ==
    /\ pc = "fallback"
    /\ ~respText
    /\ \E run \in query_policy_and_baggage(prompt) :
          /\ toolRuns' = Append(toolRuns, run)
          /\ IF run.raised = "none"
             THEN /\ retrieved_chunks' = Append(retrieved_chunks, run.out)
                  /\ tools_used' =
                        Append(tools_used, "Policy and Baggage (Default)")
                  /\ pc' = "generate"
                  /\ UNCHANGED exc
             ELSE /\ exc' = run.raised
                  /\ pc' = "raised"
                  /\ UNCHANGED <<retrieved_chunks, tools_used>>
    /\ UNCHANGED <<xvars, procvars, sessvars, prompt, functionCalls, respText,
                   idx, llmCalls, llmFailed, grounding, answer>>

(***************************************************************************)
(* generate_answer_with_llm(query_text, retrieved_chunks).                 *)
(***************************************************************************)

\* context_text is blank: the fixed apology is returned, no LLM call.
GenerateNoContext ==
    /\ pc = "generate"
    /\ ContextChunks(retrieved_chunks) = << >>
    /\ answer' = "I am sorry, I could not find any relevant information."
    /\ pc' = "respond"
    /\ UNCHANGED <<xvars, procvars, sessvars, prompt, functionCalls, respText,
                   idx, retrieved_chunks, tools_used, llmCalls, llmFailed,
                   toolRuns, grounding, exc>>

\* The LLM call over context_text returns.
GenerateOk ==
    /\ pc = "generate"
    /\ ContextChunks(retrieved_chunks) # << >>
    /\ llmCalls' = [llmCalls EXCEPT !.gen = @ + 1]
    /\ grounding' = ContextChunks(retrieved_chunks)
    /\ answer' = "response.text"
    /\ pc' = "respond"
    /\ UNCHANGED <<xvars, procvars, sessvars, prompt, functionCalls, respText,
                   idx, retrieved_chunks, tools_used, llmFailed, toolRuns, exc>>

\* The LLM call over context_text raises: the error text is returned.
GenerateFail ==
    /\ pc = "generate"
    /\ ContextChunks(retrieved_chunks) # << >>
    /\ llmCalls' = [llmCalls EXCEPT !.gen = @ + 1]
    /\ llmFailed' = TRUE
    /\ grounding' = ContextChunks(retrieved_chunks)
    /\ answer' = "An error occurred during Gemini LLM generation."
    /\ pc' = "respond"
    /\ UNCHANGED <<xvars, procvars, sessvars, prompt, functionCalls, respText,
                   idx, retrieved_chunks, tools_used, toolRuns, exc>>

(***************************************************************************)
(* The chat handler after orchestrator_agent.                              *)
(***************************************************************************)

\* an except clause naming only the LLM client's error
HandlerCatchesLLMOnly(e) == e = "LLMError"

\* the exceptions the handler's "except Exception" clause catches
HandlerCatches(e) == e \in {"AttributeError", "StoreError", "LLMError"}

\* An exception left orchestrator_agent: the handler's except clause turns it
\* into the critical-error text; an exception it does not catch reaches the
\* script's outer except clause, which shows st.error and appends nothing.
HandlerExcept ==
    /\ pc = "raised"
    /\ IF HandlerCatches(exc)
       THEN /\ answer' = "An unexpected critical error occurred during orchestration."
            /\ tools_used' = << >>
            /\ pc' = "respond"
            /\ UNCHANGED <<prompt, functionCalls, respText, idx,
                           retrieved_chunks, llmCalls, llmFailed, toolRuns,
                           grounding, exc>>
       ELSE /\ pc' = "idle"
            /\ prompt' = NoMatch
            /\ functionCalls' = << >>
            /\ respText' = FALSE
            /\ idx' = 1
            /\ retrieved_chunks' = << >>
            /\ tools_used' = << >>
            /\ llmCalls' = NoCalls
            /\ llmFailed' = FALSE
            /\ toolRuns' = << >>
            /\ grounding' = << >>
            /\ exc' = "none"
            /\ answer' = None
    /\ UNCHANGED <<xvars, procvars, sessvars>>

\* the response step as it would be if it wrote the assistant entry over the
\* last entry of the history
RespondOverwriting ==
    /\ pc = "respond"
    /\ messages' = [messages EXCEPT ![Len(messages)] =
                        [role |-> "assistant", content |-> answer]]
    /\ pc' = "idle"
    /\ prompt' = NoMatch
    /\ functionCalls' = << >>
    /\ respText' = FALSE
    /\ idx' = 1
    /\ retrieved_chunks' = << >>
    /\ tools_used' = << >>
    /\ llmCalls' = NoCalls
    /\ llmFailed' = FALSE
    /\ toolRuns' = << >>
    /\ grounding' = << >>
    /\ exc' = "none"
    /\ answer' = None
    /\ UNCHANGED <<xvars, procvars, inputShown, lastOutcome>>

\* full_response is displayed and appended to the history; the run ends and
\* the locals of the run are gone.  The entry's content is recorded by the
\* answer text it starts with; the "Used Tools" line that follows it in
\* full_response is tools_used, which the entry does not repeat.
Respond ==
    /\ pc = "respond"
    /\ messages' = Append(messages,
                          [role |-> "assistant", content |-> answer])
    /\ pc' = "idle"
    /\ prompt' = NoMatch
    /\ functionCalls' = << >>
    /\ respText' = FALSE
    /\ idx' = 1
    /\ retrieved_chunks' = << >>
    /\ tools_used' = << >>
    /\ llmCalls' = NoCalls
    /\ llmFailed' = FALSE
    /\ toolRuns' = << >>
    /\ grounding' = << >>
    /\ exc' = "none"
    /\ answer' = None
    /\ UNCHANGED <<xvars, procvars, inputShown, lastOutcome>>

Next ==
    \/ \E p \in Queries \cup {NoMatch} : StartRun(p)
    \/ ClearCache
    \/ SetupCacheHit
    \/ SetupBody
    \/ SetupFail
    \/ SetupCreateFail
    \/ IngestCacheHit
    \/ IngestBody
    \/ RenderChat
    \/ HandlerStart
    \/ RouteFail
    \/ RouteOk
    \/ ToolCallKnown
    \/ ToolCallUnknown
    \/ ToolsDone
    \/ FinalOk
    \/ FinalFail
    \/ FallbackDirect
    \/ FallbackDefault
    \/ GenerateNoContext
    \/ GenerateOk
    \/ GenerateFail
    \/ HandlerExcept
    \/ Respond

Spec == Init /\ [][Next]_vars

(***************************************************************************)
(* The flight-identifier extraction of query_flight_status on every text   *)
(* of at most MaxLen characters over a small alphabet: a lower-case and an *)
(* upper-case letter, an ASCII digit, a non-ASCII decimal digit, a space   *)
(* and a hyphen.                                                           *)
(***************************************************************************)
XChars == {"s", "V", "7", "U+06F2", " ", "-"}
Texts == SeqsUpTo(XChars, MaxLen)

\* entries of the airline table AIRLINE_ICAO_TO_IATA (src/rag_xml_admin.py):
\* "PIA": "PK", "SVA": "SV", "AAP": "AAP" and "JZR": "J9"; the first two
\* are the aliases tried in queries
AirlineAliases == {<<"P","I","A">>, <<"S","V","A">>}
AIRLINE_ICAO_TO_IATA(a) ==
    CASE a = <<"P","I","A">> -> <<"P","K">>
      [] a = <<"S","V","A">> -> <<"S","V">>
      [] a = <<"A","A","P">> -> <<"A","A","P">>
      [] a = <<"J","Z","R">> -> <<"J","9">>
\* the keys of these entries
IcaoKeys == {<<"P","I","A">>, <<"S","V","A">>, <<"A","A","P">>, <<"J","Z","R">>}

\* queries made of an alias of the table and a bare number, with or without
\* a space between them
BareNumbers == {<<"7","2">>, <<"2","3","4">>}
AliasTexts ==
    {a \o sep \o d : a \in AirlineAliases, sep \in {<< >>, <<" ">>},
                     d \in BareNumbers}

InitExtract ==
    /\ text \in Texts \cup AliasTexts
    /\ uppered = NoMatch
    /\ extracted = NoMatch
    /\ xpc = "input"
    /\ AdminRest
    /\ AppInit

\* query.upper()
XUpper ==
    /\ xpc = "input"
    /\ uppered' = Upper(text)
    /\ xpc' = "upper"
    /\ UNCHANGED <<text, extracted, adminvars, procvars, sessvars, pc, prompt,
                   qvars>>

\* re.search(...) on the upper-cased text and group(1) of the match
XSearch ==
    /\ xpc = "upper"
    /\ extracted' = RegexSearch(uppered)
    /\ xpc' = "done"
    /\ UNCHANGED <<text, uppered, adminvars, procvars, sessvars, pc, prompt,
                   qvars>>

NextExtract == XUpper \/ XSearch

SpecExtract == InitExtract /\ [][NextExtract]_vars

(***************************************************************************)
(* Claims about the extraction.                                            *)
(***************************************************************************)
Separators == {" ", "-"}
IsAsciiLetter(c) == \E i \in 1..26 : LowerCase[i] = c \/ UpperCase[i] = c

\* t is a two-letter code, then any number of spaces and hyphens, then 2 to
\* 4 ASCII digits, and nothing else
CodeSepDigits(t) ==
    /\ Len(t) >= 4
    /\ IsAsciiLetter(t[1])
    /\ IsAsciiLetter(t[2])
    /\ \E k \in 2..4 :
          /\ Len(t) >= 2 + k
          /\ \A i \in (Len(t) - k + 1)..Len(t) : t[i] \in AsciiDigits
          /\ \A i \in 3..(Len(t) - k) : t[i] \in Separators

\* the upper-case concatenation of code and digits
Concatenated(t) == SelectSeq(Upper(t), LAMBDA c : c \notin Separators)

\* C4: for every query that is a two-letter code followed by 2 to 4 digits,
\* in any letter case, adjacent or separated by spaces or hyphens, the
\* extracted flight identifier is the upper-case concatenation of code and
\* digits.  (Violated: the code strips no separator, so "sV-77" gives no
\* identifier at all.)
C4_SeparatedCodeIsConcatenated ==
    (xpc = "done" /\ CodeSepDigits(text)) => extracted = Concatenated(text)

\* the value matches [A-Z0-9]{2}[0-9]{2,4}
MatchesCanonicalPattern(v) ==
    /\ Len(v) \in 4..6
    /\ \A i \in 1..2 : IsAZ(v[i]) \/ v[i] \in AsciiDigits
    /\ \A i \in 3..Len(v) : v[i] \in AsciiDigits

\* C5: whenever the extraction succeeds, the extracted value matches
\* [A-Z0-9]{2}[0-9]{2,4}.  (Violated: \d also matches decimal digits outside
\* ASCII, which the extracted value then holds.)
C5_ExtractedMatchesPattern ==
    (xpc = "done" /\ extracted # NoMatch) => MatchesCanonicalPattern(extracted)

(***************************************************************************)
(* Claims about the retrieval tools, orchestrator_agent and the handler.   *)
(***************************************************************************)
FlightRuns == {i \in DOMAIN toolRuns : toolRuns[i].tool = "query_flight_status"}

\* the store returned objects for this tool output
Found(chunk) == chunk.objects # << >>

\* C1: if the store call inside a retrieval tool raises, the dispatch step
\* records a not-found result for that tool and the exception does not leave
\* the retrieval dispatch.  (Violated: neither the tools nor the tool loop
\* catch anything.)
C1_StoreErrorRecordedNotFound ==
    \A i \in DOMAIN toolRuns :
        (toolRuns[i].calls # << >> /\ toolRuns[i].calls[1].raised) =>
            /\ exc = "none"
            /\ Len(retrieved_chunks) >= i
            /\ ~Found(retrieved_chunks[i])

\* C2: when a flight identifier was extracted and the filtered lookup returns
\* no rows, a similarity search without the filter follows.  (Violated: the
\* tool issues one query and reports not-found at once.)
C2_EmptyExactLookupFallsBack ==
    \A i \in FlightRuns :
        LET calls == toolRuns[i].calls IN
        (/\ calls # << >>
         /\ calls[1].filter # NoFilter
         /\ ~calls[1].raised
         /\ calls[1].objects = << >>) =>
            /\ Len(calls) >= 2
            /\ calls[2].filter = NoFilter

\* C3: when the filtered lookup for an extracted flight identifier returns a
\* record, the flight tool issues no further store query and returns that
\* lookup's result.
C3_ExactHitShortCircuits ==
    \A i \in FlightRuns :
        LET calls == toolRuns[i].calls IN
        (/\ calls # << >>
         /\ calls[1].filter # NoFilter
         /\ calls[1].objects # << >>) =>
            /\ Len(calls) = 1
            /\ toolRuns[i].raised = "none"
            /\ toolRuns[i].out.objects = calls[1].objects

\* a flight tool run whose filtered lookup returned a record
C3_Witness ==
    \E i \in FlightRuns :
        /\ toolRuns[i].calls # << >>
        /\ toolRuns[i].calls[1].filter = <<"P","K","2","3","4">>
        /\ toolRuns[i].calls[1].objects # << >>
        /\ Len(retrieved_chunks) >= i

ErrorTexts ==
    {"Gemini API call failed during orchestration.",
     "An error occurred during Gemini LLM generation.",
     "An unexpected critical error occurred during orchestration."}

\* C6: whatever fails while a prompt is handled, the handler's except clause
\* takes the exception and the run ends with exactly one assistant entry
\* appended after the prompt's user entry.
C6_HandlerAlwaysAnswers ==
    /\ pc = "raised" => HandlerCatches(exc)
    /\ (pc = "idle" /\ messages # << >>) =>
          /\ Len(messages) = 1 + 2 * UserCount(messages)
          /\ messages[Len(messages)].role = "assistant"

\* a run that ended after an exception left orchestrator_agent, with the
\* prompt's user entry followed by the critical-error entry
C6_Witness ==
    /\ pc = "idle"
    /\ UserCount(messages) >= 1
    /\ messages[Len(messages) - 1].role = "user"
    /\ messages[Len(messages)].role = "assistant"
    /\ messages[Len(messages)].content =
          "An unexpected critical error occurred during orchestration."

\* C7: when an LLM call fails while a query is handled, the assistant message
\* is an error text, and each of the three calls is issued at most once per
\* query.
C7_LLMFailureIsErrorNoRetry ==
    /\ llmCalls.route <= 1
    /\ llmCalls.final <= 1
    /\ llmCalls.gen <= 1
    /\ (pc = "respond" /\ llmFailed) => answer \in ErrorTexts

\* the second LLM call failed and its error is about to be shown
C7_Witness ==
    /\ pc = "respond"
    /\ llmFailed
    /\ llmCalls.final = 1
    /\ llmCalls.route = 1

\* C8: for a query that is only a greeting no retrieval tool is invoked and
\* no collection of the store is queried.  (Violated: there is no greeting
\* check; the routing response may call a tool, and with no call and no text
\* the policy tool runs by default.)
C8_GreetingQueriesNoCollection ==
    prompt \in Greetings =>
        \A i \in DOMAIN toolRuns : toolRuns[i].calls = << >>

\* C9: when every retrieval consulted returned not-found, the answer comes
\* from an answer-generating LLM call.  (Violated on the default path:
\* generate_answer_with_llm returns the fixed apology without a call.)
C9_AllNotFoundStillAsksLLM ==
    (/\ pc = "respond"
     /\ exc = "none"
     /\ retrieved_chunks # << >>
     /\ \A i \in DOMAIN retrieved_chunks : ~Found(retrieved_chunks[i])) =>
        llmCalls.final + llmCalls.gen >= 1

\* C10: when at least one retrieval found data, the context handed to the
\* answer-generating call holds only outputs of retrievals that found data.
\* (Violated on the tool-call path: every tool output is in messages.)
C10_GroundingOnlyFound ==
    (/\ llmCalls.final + llmCalls.gen >= 1
     /\ \E i \in DOMAIN retrieved_chunks : Found(retrieved_chunks[i])) =>
        \A i \in DOMAIN grounding : Found(grounding[i])

\* C11: a tool output is treated as found exactly when the store returned
\* an object: generate_answer_with_llm keeps every output built from a
\* returned object and drops an output only when the store returned none.
\* (Violated: the test is chunk.endswith("found."), so an output built from
\* a stored text that ends with "found." is dropped.)
C11_KeptIffStoreReturned ==
    pc = "generate" =>
        \A i \in DOMAIN retrieved_chunks :
            Found(retrieved_chunks[i]) <=> ~EndsWithFound(retrieved_chunks[i])

(***************************************************************************)
(* Claims about the conversation history and the order of the steps.       *)
(***************************************************************************)

\* the history in every state: the greeting first, then user and assistant
\* entries in turn, and 1 + 2n entries once n prompts are answered
C13_HistoryShape ==
    messages # << >> =>
        /\ messages[1] = Greeting
        /\ \A i \in DOMAIN messages :
              messages[i].role = IF i % 2 = 1 THEN "assistant" ELSE "user"
        /\ pc = "idle" => Len(messages) = 1 + 2 * UserCount(messages)

\* the history in every step: unchanged, created with the greeting, or
\* extended by one entry with every earlier entry as it was
C13_HistoryStep ==
    \/ messages' = messages
    \/ messages = << >> /\ messages' = <<Greeting>>
    \/ /\ messages # << >>
       /\ Len(messages') = Len(messages) + 1
       /\ SubSeq(messages', 1, Len(messages)) = messages

\* C13: the conversation history is an append-only list that starts with one
\* assistant greeting; each handled prompt appends one user entry and then
\* one assistant entry, no entry is ever changed, reordered or removed, and
\* after n handled prompts it has 1 + 2n entries with alternating roles.
C13_AppendOnlyHistory == [](C13_HistoryShape) /\ [][C13_HistoryStep]_vars

\* a prompt was handled: greeting, user entry, assistant entry
C13_Witness ==
    /\ pc = "idle"
    /\ Len(messages) = 3
    /\ messages[2].role = "user"
    /\ messages[3].role = "assistant"

KnownCalls == {i \in DOMAIN functionCalls : functionCalls[i] \in ToolNames}
AnswerCallIssued == llmCalls.final + llmCalls.gen >= 1

\* in every state: the answer-generating call is issued only after every tool
\* the routing response named has returned, and a prompt is taken up only
\* when the history ends with an assistant entry
C14_JoinedBeforeAnswer ==
    /\ llmCalls.final >= 1 =>
          /\ idx > Len(functionCalls)
          /\ Len(toolRuns) = Cardinality(KnownCalls)
          /\ \A i \in DOMAIN toolRuns : toolRuns[i].raised = "none"
    /\ llmCalls.gen >= 1 =>
          /\ toolRuns # << >>
          /\ \A i \in DOMAIN toolRuns : toolRuns[i].raised = "none"
    /\ pc = "handler" => messages[Len(messages)].role = "assistant"

\* in every step: no tool runs once the answer-generating call is issued, and
\* the prompt of a run stays until the run ends
C14_NoRetrievalAfterAnswer ==
    /\ AnswerCallIssued => (toolRuns' = toolRuns \/ pc' = "idle")
    /\ (pc # "idle" /\ pc' # "idle") => prompt' = prompt

C15_DefaultFallbackAnswers ==
    (/\ prompt \notin Greetings
     /\ functionCalls = << >>
     /\ ~respText
     /\ toolRuns # << >>) =>
        /\ exc = "none"
        /\ toolRuns[1].calls # << >>
        /\ tools_used = <<"Policy and Baggage (Default)">>

\* the flight identifier a query holds: a two-letter code and 2 to 4 digits,
\* adjacent or separated
ClaimedFlightId(q) == IF CodeSepDigits(q) THEN Concatenated(q) ELSE NoMatch

\* C16: the flight retrieval filters on flight_num exactly when the query
\* holds a flight identifier F, with value F, so every record returned for
\* such a query has flight number F; a query without identifier is searched
\* unfiltered.  (Violated: for "SV-726" the regex finds nothing, see C4, the
\* search is unfiltered and may return the record of another flight.)
C16_FilterIffFlightId ==
    \A i \in FlightRuns :
        /\ \A k \in DOMAIN toolRuns[i].calls :
              toolRuns[i].calls[k].filter = ClaimedFlightId(prompt)
        /\ ClaimedFlightId(prompt) # NoMatch =>
              \A k \in DOMAIN toolRuns[i].out.objects :
                  toolRuns[i].out.objects[k].flight_num = ClaimedFlightId(prompt)

PolicyRuns ==
    {i \in DOMAIN toolRuns : toolRuns[i].tool = "query_policy_and_baggage"}

\* C17: query_policy_and_baggage only ever issues an unfiltered similarity
\* search on PAAPolicy, also for a query that holds a flight identifier.
C17_PolicySimilarityOnly ==
    \A i \in PolicyRuns :
        \A k \in DOMAIN toolRuns[i].calls :
            /\ toolRuns[i].calls[k].coll = "PAAPolicy"
            /\ toolRuns[i].calls[k].filter = NoFilter

\* the policy tool searched the store for a query that holds "PK234"
C17_Witness ==
    /\ prompt = QPk234
    /\ \E i \in PolicyRuns :
          /\ toolRuns[i].calls # << >>
          /\ toolRuns[i].raised = "none"

\* C19: in every run that handles a prompt, WEAVIATE_CLIENT is the connected
\* client when a retrieval tool reads it.  (Violated: the module top level
\* sets it to None in every run and a cached setup_weaviate_client does not
\* set it again.)
C19_ClientSetWhenToolReads ==
    \A i \in DOMAIN toolRuns : toolRuns[i].raised # "AttributeError"

\* C18: for every alias of the airline table, a query made of the alias and a
\* bare 2 to 4 digit number gives the flight identifier made of the alias's
\* IATA code and the number.  (Violated: query_flight_status consults no
\* airline table; "PIA 234" gives no identifier and "PIA234" gives "IA234".)
C18_AliasNumberGivesMappedCode ==
    xpc = "done" =>
        \A a \in AirlineAliases, sep \in {<< >>, <<" ">>}, d \in BareNumbers :
            text = a \o sep \o d => extracted = AIRLINE_ICAO_TO_IATA(a) \o d

(***************************************************************************)
(* Claims about the cached setup and ingestion.                            *)
(***************************************************************************)

HandlingPcs ==
    {"handler", "route", "tools", "final", "fallback", "generate", "raised",
     "respond"}

\* in every state: a prompt is handled only once setup and ingestion are
\* complete
C20_SetupBeforePrompt == pc \in HandlingPcs => setupCached /\ ingestCached

\* in every step: the store is changed only by a setup or ingestion that does
\* not find its value in the resource cache
C20_StoreStep ==
    (store' # store \/ wipes' # wipes) =>
        \/ pc = "setup" /\ ~setupCached
        \/ pc = "ingest" /\ ~ingestCached

TwicePrompts == 2
\* function calls in one routing response in SpecTwice
TwiceCalls == 1

\* A script run starts; the second prompt of the session repeats the query
\* of the prompt answered before it.
StartRepeatRun(p) ==
    /\ pc = "idle"
    /\ p # NoMatch =>
          /\ inputShown
          /\ UserCount(messages) < TwicePrompts
          /\ lastOutcome # NoOutcome => p = lastOutcome.query
    /\ WEAVIATE_CLIENT' = None
    /\ prompt' = p
    /\ pc' = "setup"
    /\ UNCHANGED <<xvars, setupCached, ingestCached, store, wipes, sessvars,
                   qvars>>

\* The routing call returns a response with at most TwiceCalls function
\* calls and a text that is blank or not.
RouteOkSingle ==
    /\ pc = "route"
    /\ \E fc \in SeqsUpTo(CallNames, TwiceCalls), txt \in BOOLEAN :
          /\ functionCalls' = fc
          /\ respText' = txt
          /\ pc' = IF fc # << >> THEN "tools" ELSE "fallback"
    /\ llmCalls' = [llmCalls EXCEPT !.route = @ + 1]
    /\ idx' = 1
    /\ UNCHANGED <<xvars, procvars, sessvars, prompt, retrieved_chunks,
                   tools_used, llmFailed, toolRuns, grounding, exc, answer>>

\* The assistant entry is appended and the run ends, as in Respond; the
\* history variable keeps what this prompt consulted and found.
RespondRecorded ==
    /\ pc = "respond"
    /\ messages' = Append(messages,
                          [role |-> "assistant", content |-> answer])
    /\ lastOutcome' = Outcome(prompt, store, functionCalls, respText, toolRuns)
    /\ pc' = "idle"
    /\ prompt' = NoMatch
    /\ functionCalls' = << >>
    /\ respText' = FALSE
    /\ idx' = 1
    /\ retrieved_chunks' = << >>
    /\ tools_used' = << >>
    /\ llmCalls' = NoCalls
    /\ llmFailed' = FALSE
    /\ toolRuns' = << >>
    /\ grounding' = << >>
    /\ exc' = "none"
    /\ answer' = None
    /\ UNCHANGED <<xvars, procvars, inputShown>>

NextTwice ==
    \/ \E p \in Queries \cup {NoMatch} : StartRepeatRun(p)
    \/ ClearCache
    \/ SetupCacheHit
    \/ SetupBody
    \/ SetupFail
    \/ SetupCreateFail
    \/ IngestCacheHit
    \/ IngestBody
    \/ RenderChat
    \/ HandlerStart
    \/ RouteFail
    \/ RouteOkSingle
    \/ ToolCallKnown
    \/ ToolCallUnknown
    \/ ToolsDone
    \/ FinalOk
    \/ FinalFail
    \/ FallbackDirect
    \/ FallbackDefault
    \/ GenerateNoContext
    \/ GenerateOk
    \/ GenerateFail
    \/ HandlerExcept
    \/ RespondRecorded

SpecTwice == Init /\ [][NextTwice]_vars

\* C12: when the same query is answered twice in one session over an
\* unchanged store, with the same routing response from the LLM, the second
\* handling consults the same collections and finds something in the same
\* collections as the first.  (Violated: a rerun served from the resource
\* cache has WEAVIATE_CLIENT = None and consults nothing, and a store query
\* may raise in one handling and not in the other.)
C12_RepeatSameOutcome ==
    (/\ pc = "respond"
     /\ lastOutcome.query = prompt
     /\ lastOutcome.store = store
     /\ lastOutcome.calls = functionCalls
     /\ lastOutcome.text = respText) =>
        LET now == Outcome(prompt, store, functionCalls, respText, toolRuns) IN
        /\ now.consulted = lastOutcome.consulted
        /\ now.found = lastOutcome.found

\* ---------------------------------------------------------------------
\* C21

\* the function calls of the routing response the loop has been through
CallsDone == {k \in KnownCalls : k < idx}

\* in the loop and after it: the two lists have one entry per known call
\* gone through
C21_ListsAligned ==
    pc \in {"tools", "final"} =>
        /\ Len(retrieved_chunks) = Len(tools_used)
        /\ Len(retrieved_chunks) = Cardinality(CallsDone)
        /\ Len(toolRuns) = Cardinality(CallsDone)

\* one iteration that goes on to the next call: a known name runs its tool
\* once on the prompt and adds one entry to each list, an unknown name runs
\* nothing and adds nothing
C21_IterationStep ==
    (pc = "tools" /\ pc' = "tools" /\ idx' = idx + 1) =>
        IF functionCalls[idx] \in ToolNames
        THEN /\ Len(toolRuns') = Len(toolRuns) + 1
             /\ toolRuns'[Len(toolRuns')] \in tool_map(functionCalls[idx], prompt)
             /\ retrieved_chunks' =
                   Append(retrieved_chunks, toolRuns'[Len(toolRuns')].out)
             /\ tools_used' = Append(tools_used, ToolLabel(functionCalls[idx]))
        ELSE /\ toolRuns' = toolRuns
             /\ retrieved_chunks' = retrieved_chunks
             /\ tools_used' = tools_used

\* C21: in the tool loop of orchestrator_agent retrieved_chunks and
\* tools_used have equal length; a function call naming a known tool runs
\* that tool once with the query text and adds one entry to both lists, a
\* call naming an unknown tool runs nothing and adds to neither.
C21_ChunksAndLabelsAligned ==
    [](C21_ListsAligned) /\ [][C21_IterationStep]_vars

\* the loop went through an unknown name and a known one
C21_Witness ==
    /\ pc = "final"
    /\ Len(functionCalls) = 2
    /\ Cardinality(KnownCalls) = 1
    /\ Len(retrieved_chunks) = 1
    /\ Len(tools_used) = 1

(***************************************************************************)
(* The fixed-window chunking of the document and web admins.               *)
(***************************************************************************)
\* longest text chunked
MaxTextLen == 1700

\* chunk_size and overlap of the pdf branch of rag_docs_admin
chunk_size == 800
overlap == 150
\* the literals of text[j:j+800] ... range(0, len(text), 650) in
\* rag_web_admin
WebWindow == 800
WebStep == 650
\* the literals of content[j:j+800] ... range(0, len(content), 800 - 150)
\* in the text branch of rag_docs_admin
TextWindow == 800
TextOverlap == 150

Min(a, b) == IF a <= b THEN a ELSE b
Max(a, b) == IF a >= b THEN a ELSE b

\* [text[j:j+size] for j in range(0, n, size)]: the chunking as it would be
\* with windows that do not overlap
ChunksDisjoint(n, size, step) ==
    [k \in 1..((n + size - 1) \div size) |->
        [from |-> (k - 1) * size, to |-> Min((k - 1) * size + size, n)]]

\* [text[j:j+size] for j in range(0, n, step)] for a text of length n: the
\* k-th chunk is the slice that starts at j = (k-1)*step and ends before
\* min(j+size, n)
Chunks(n, size, step) ==
    [k \in 1..((n + step - 1) \div step) |->
        [from |-> (k - 1) * step, to |-> Min((k - 1) * step + size, n)]]

\* the three chunking expressions
Sites == {"pdf", "text", "web"}
ChunksAt(s, n) ==
    CASE s = "pdf" -> Chunks(n, chunk_size, chunk_size - overlap)
      [] s = "text" -> Chunks(n, TextWindow, TextWindow - TextOverlap)
      [] s = "web" -> Chunks(n, WebWindow, WebStep)

InitChunk ==
    /\ textLen \in 1..MaxTextLen
    /\ site \in Sites
    /\ chunked = << >>
    /\ cpc = "input"
    /\ XRest
    /\ AppInit
    /\ script = "none"
    /\ RunRest
    /\ astore = OldStore
    /\ xmlFile = NoXmlFile
    /\ ScriptsRest

\* chunks = [text[j:j+800] for j in range(0, len(text), 650)]
ChunkText ==
    /\ cpc = "input"
    /\ chunked' = ChunksAt(site, textLen)
    /\ cpc' = "done"
    /\ UNCHANGED <<text, uppered, extracted, xpc, textLen, site, runvars,
                   webvars, ingvars, record, docvars, procvars, sessvars, pc,
                   prompt, qvars>>

NextChunk == ChunkText

SpecChunk == InitChunk /\ [][NextChunk]_vars

\* characters two slices have in common
Shared(a, b) == Max(0, Min(a.to, b.to) - Max(a.from, b.from))

\* C24: the chunking with window 800 and step 650 loses no text: every
\* character position 0..n-1 of a text of length n >= 1 lies in a chunk, no
\* chunk is empty or longer than 800 characters, and a chunk that is a full
\* 800-character window shares exactly 150 characters with the next chunk.
C24_ChunkingLosesNoText ==
    cpc = "done" =>
        /\ \A p \in 0..(textLen - 1) :
              \E k \in DOMAIN chunked : chunked[k].from <= p /\ p < chunked[k].to
        /\ \A k \in DOMAIN chunked :
              /\ chunked[k].to - chunked[k].from >= 1
              /\ chunked[k].to - chunked[k].from <= 800
        /\ \A k \in DOMAIN chunked :
              (k < Len(chunked) /\ chunked[k].to - chunked[k].from = 800) =>
                  Shared(chunked[k], chunked[k + 1]) = 150

\* a text of 1500 characters was cut into two full windows and a rest
C24_Witness ==
    /\ cpc = "done"
    /\ textLen = 1500
    /\ Len(chunked) = 3
    /\ chunked[2] = [from |-> 650, to |-> 1450]
    /\ chunked[3] = [from |-> 1300, to |-> 1500]

(***************************************************************************)
(* The admin scripts.  A process runs one of them; a run starts with a     *)
(* button press and ends when the script run is over.                      *)
(***************************************************************************)
\* the variables no admin script touches
othervars == <<text, uppered, extracted, xpc, chunkvars, procvars, sessvars,
               pc, prompt, qvars>>
\* ... and those the web admin does not touch
nonweb == <<ingvars, record, docvars, othervars>>

\* a store operation goes through the client: it is a late one when the
\* client is not open
IssueOp == lateOp' = (lateOp \/ client # "open")

\* the end of a run as it would be with client.close() as the last statement
\* of the try block instead of a finally clause: st.stop(), st.rerun() and
\* an uncaught exception leave without it
AdminCloseAtEnd ==
    /\ apc = "finally"
    /\ IF exitPath \in {"end", "caught"}
       THEN /\ client' = "closed"
            /\ closes' = closes + 1
       ELSE UNCHANGED <<client, closes>>
    /\ apc' = "idle"
    /\ UNCHANGED <<script, exitPath, lateOp, astore>>

\* finally: client.close(); the run is over (st.stop(), st.rerun() or an
\* exception the try statement did not catch go on from here and end it)
AdminClose ==
    /\ apc = "finally"
    /\ client' = "closed"
    /\ closes' = closes + 1
    /\ apc' = "idle"
    /\ UNCHANGED <<script, exitPath, lateOp, astore>>

\* --- rag_web_admin ---

\* three urls of LINK_GROUPS, in display order
Urls == <<"https://paa.gov.pk/", "https://paa.gov.pk/e-complains",
          "https://paa.gov.pk/allTender">>
\* the selections: the ticked urls in display order
Selections ==
    {<< >>, <<Urls[1]>>, <<Urls[2]>>, <<Urls[3]>>, <<Urls[1], Urls[2]>>,
     <<Urls[1], Urls[3]>>, <<Urls[2], Urls[3]>>, Urls}
\* values of the "Links per Batch" slider (1..15)
BatchSizes == {1, 2, 5}
\* len(res.text) of a page that is long enough
PageLens == {900}

\* the objects batch.add_object adds for a page of n characters
WebObjectsOf(url, n) ==
    LET cs == ChunksAt("web", n) IN
    {[source |-> url, from |-> cs[k].from, to |-> cs[k].to] : k \in DOMAIN cs}

\* "Start Group Indexing" is pressed with the widgets at sel, del and bs:
\* without a selection the run stops with a warning, with one it connects.
WebStart(sel, del, bs) ==
    /\ script = "web"
    /\ apc = "idle"
    /\ selected_urls' = sel
    /\ delete_existing' = del
    /\ batch_size' = bs
    /\ linkIdx' = 0
    /\ IF sel = << >>
       THEN /\ exitPath' = "stop"
            /\ UNCHANGED <<apc, client, closes>>
       ELSE /\ apc' = "cleanup"
            /\ client' = "open"
            /\ closes' = 0
            /\ exitPath' = "none"
    /\ UNCHANGED <<script, lateOp, astore, processed_links, nonweb>>

\* RAG2_Web after "if delete_existing and exists: delete"
WebDeleted(st) ==
    IF delete_existing /\ st["RAG2_Web"].exists
    THEN [st EXCEPT !["RAG2_Web"] = Absent]
    ELSE st
\* ... and after "if not exists: create ... else: get"
WebCreated(st) ==
    IF ~st["RAG2_Web"].exists
    THEN [st EXCEPT !["RAG2_Web"] = Coll({})]
    ELSE st

\* The collection cleanup and creation.
WebCleanup ==
    /\ apc = "cleanup"
    /\ IssueOp
    /\ astore' = WebCreated(WebDeleted(astore))
    /\ apc' = "links"
    /\ UNCHANGED <<script, client, closes, exitPath, webvars, nonweb>>

\* A store call of the cleanup raises: the exception leaves the try
\* statement, which has no except clause, through finally.
WebCleanupFail ==
    /\ apc = "cleanup"
    /\ IssueOp
    /\ astore' \in {astore, WebDeleted(astore)}
    /\ exitPath' = "error"
    /\ apc' = "finally"
    /\ UNCHANGED <<script, client, closes, webvars, nonweb>>

\* One link: the reader answers 200 with more than 100 characters; the
\* chunks are added and the url is marked.
WebLinkOk ==
    /\ apc = "links"
    /\ linkIdx < Len(selected_urls)
    /\ IssueOp
    /\ \E n \in PageLens :
          astore' = [astore EXCEPT !["RAG2_Web"].objects =
                        @ \cup WebObjectsOf(selected_urls[linkIdx + 1], n)]
    /\ processed_links' = processed_links \cup {selected_urls[linkIdx + 1]}
    /\ linkIdx' = linkIdx + 1
    /\ UNCHANGED <<script, apc, client, closes, exitPath, selected_urls,
                   delete_existing, batch_size, nonweb>>

\* One link: the reader fails, answers too little, or the request raises
\* (caught by the inner except): nothing is added, nothing is marked.
WebLinkFail ==
    /\ apc = "links"
    /\ linkIdx < Len(selected_urls)
    /\ linkIdx' = linkIdx + 1
    /\ UNCHANGED <<runvars, processed_links, selected_urls, delete_existing,
                   batch_size, nonweb>>

\* The loop is over: st.success, st.rerun(); finally follows.
WebDone ==
    /\ apc = "links"
    /\ linkIdx = Len(selected_urls)
    /\ exitPath' = "rerun"
    /\ apc' = "finally"
    /\ UNCHANGED <<script, client, closes, lateOp, astore, webvars, nonweb>>

WebClose == script = "web" /\ AdminClose /\ UNCHANGED <<webvars, nonweb>>

NextWeb ==
    \/ \E sel \in Selections, del \in BOOLEAN, bs \in BatchSizes :
          WebStart(sel, del, bs)
    \/ WebCleanup
    \/ WebCleanupFail
    \/ WebLinkOk
    \/ WebLinkFail
    \/ WebDone
    \/ WebClose

\* --- admin_ingest ---

\* the variables admin_ingest does not touch
noning == <<webvars, record, docvars, othervars>>

\* the text between the tags of a block: whether the tag is there, and the
\* characters of group(1)
NoTag == [present |-> FALSE, text |-> << >>]
Tag(t) == [present |-> TRUE, text |-> t]
TBD == <<"T","B","D">>

FlightIdentityTags ==
    {NoTag, Tag(<< >>), Tag(<<" ">>), Tag(<<"P","K","2","3","4">>),
     Tag(<<" ","P","K","2","3","4"," ">>)}
FlightNumberTags == {NoTag, Tag(<<"2","3","4">>)}
Blocks ==
    [FlightIdentity : FlightIdentityTags, FlightNumber : FlightNumberTags]

\* flight_records.xml: missing, without a flight-data block, with one block
\* or with the same block twice
XmlFiles ==
    {NoXmlFile, [exists |-> TRUE, blocks |-> << >>]}
    \cup {[exists |-> TRUE, blocks |-> <<b>>] : b \in Blocks}
    \cup {[exists |-> TRUE, blocks |-> <<b, b>>] :
             b \in {[FlightIdentity |-> NoTag,
                     FlightNumber |-> Tag(<<"2","3","4">>)]}}

\* str.strip()
RECURSIVE LStrip(_)
LStrip(t) == IF t # << >> /\ Head(t) = " " THEN LStrip(Tail(t)) ELSE t
RECURSIVE RStrip(_)
RStrip(t) ==
    IF t # << >> /\ t[Len(t)] = " " THEN RStrip(SubSeq(t, 1, Len(t) - 1))
    ELSE t
Strip(t) == RStrip(LStrip(t))

\* get_val(tag): m.group(1).strip() if m and m.group(1) else "TBD"
get_val(block, tag) ==
    IF block[tag].present /\ block[tag].text # << >>
    THEN Strip(block[tag].text)
    ELSE TBD

\* f_id = get_val("FlightIdentity") or get_val("FlightNumber")
f_id(block) ==
    IF get_val(block, "FlightIdentity") # << >>
    THEN get_val(block, "FlightIdentity")
    ELSE get_val(block, "FlightNumber")

target_colls == <<"PAAFlightStatus", "PAAWebLink", "PAAPolicy">>
links == {[content |-> <<"l","i","n","k","1">>],
          [content |-> <<"l","i","n","k","2">>],
          [content |-> <<"l","i","n","k","3">>]}

\* "Wipe Old Data & Sync New AODB" is pressed: without the file the run
\* stops with an error, with it the script connects.
IngStart ==
    /\ script = "ingest"
    /\ apc = "idle"
    /\ collIdx' = 0
    /\ blocks' = << >>
    /\ success_count' = 0
    /\ summaries' = << >>
    /\ IF ~xmlFile.exists
       THEN /\ exitPath' = "stop"
            /\ UNCHANGED <<apc, client, closes>>
       ELSE /\ apc' = "wipe"
            /\ client' = "open"
            /\ closes' = 0
            /\ exitPath' = "none"
    /\ UNCHANGED <<script, lateOp, astore, xmlFile, noning>>

\* One iteration of the wipe loop: the collection is deleted if it exists
\* and created.
IngWipe ==
    /\ apc = "wipe"
    /\ collIdx < Len(target_colls)
    /\ IssueOp
    /\ astore' = [astore EXCEPT ![target_colls[collIdx + 1]] = Coll({})]
    /\ collIdx' = collIdx + 1
    /\ UNCHANGED <<script, apc, client, closes, exitPath, xmlFile, blocks,
                   success_count, summaries, noning>>

\* A store call of the wipe loop raises, before or after the delete: except
\* Exception shows the error.
IngWipeFail ==
    /\ apc = "wipe"
    /\ collIdx < Len(target_colls)
    /\ IssueOp
    /\ astore' \in {astore,
                    [astore EXCEPT ![target_colls[collIdx + 1]] = Absent]}
    /\ exitPath' = "caught"
    /\ apc' = "finally"
    /\ UNCHANGED <<script, client, closes, ingvars, noning>>

\* The file is read and the blocks are searched: without a block the run
\* stops with an error (st.stop() inside the try statement).
IngParse ==
    /\ apc = "wipe"
    /\ collIdx = Len(target_colls)
    /\ blocks' = xmlFile.blocks
    /\ IF xmlFile.blocks = << >>
       THEN /\ exitPath' = "stop"
            /\ apc' = "finally"
       ELSE /\ apc' = "blocks"
            /\ UNCHANGED exitPath
    /\ UNCHANGED <<script, client, closes, lateOp, astore, xmlFile, collIdx,
                   success_count, summaries, noning>>

\* One block: its summary is inserted into PAAFlightStatus.
IngInsert ==
    /\ apc = "blocks"
    /\ success_count < Len(blocks)
    /\ IssueOp
    /\ LET block == blocks[success_count + 1] IN
          /\ astore' = [astore EXCEPT !["PAAFlightStatus"].objects =
                           @ \cup {[content |-> f_id(block)]}]
          /\ summaries' =
                Append(summaries, [block |-> block, f_id |-> f_id(block)])
    /\ success_count' = success_count + 1
    /\ UNCHANGED <<script, apc, client, closes, exitPath, xmlFile, collIdx,
                   blocks, noning>>

\* The insert of a block or of a link raises: except Exception shows the
\* error.
IngInsertFail ==
    /\ apc = "blocks"
    /\ IssueOp
    /\ exitPath' = "caught"
    /\ apc' = "finally"
    /\ UNCHANGED <<script, client, closes, astore, ingvars, noning>>

\* The default links are inserted into PAAWebLink; st.success ends the try
\* block.
IngLinks ==
    /\ apc = "blocks"
    /\ success_count = Len(blocks)
    /\ IssueOp
    /\ astore' = [astore EXCEPT !["PAAWebLink"].objects = @ \cup links]
    /\ exitPath' = "end"
    /\ apc' = "finally"
    /\ UNCHANGED <<script, client, closes, ingvars, noning>>

\* "Verify Database Count" is pressed: the script connects.
VerifyStart ==
    /\ script = "ingest"
    /\ apc = "idle"
    /\ apc' = "verify"
    /\ client' = "open"
    /\ closes' = 0
    /\ exitPath' = "none"
    /\ UNCHANGED <<script, lateOp, astore, ingvars, noning>>

\* fetch_objects(limit=1) returns, or raises (the try statement has no
\* except clause).
VerifyFetch ==
    /\ apc = "verify"
    /\ IssueOp
    /\ exitPath' \in {"end", "error"}
    /\ apc' = "finally"
    /\ UNCHANGED <<script, client, closes, astore, ingvars, noning>>

IngClose ==
    script = "ingest" /\ AdminClose /\ UNCHANGED <<ingvars, noning>>

NextIngest ==
    \/ IngStart
    \/ IngWipe
    \/ IngWipeFail
    \/ IngParse
    \/ IngInsert
    \/ IngInsertFail
    \/ IngLinks
    \/ VerifyStart
    \/ VerifyFetch
    \/ IngClose

\* --- rag_xml_admin ---

\* entries of AIRLINE_ICAO_TO_NAME, among them every one under a key or a
\* value of the entries of AIRLINE_ICAO_TO_IATA above
NameKeys == {<<"A","A","P">>, <<"P","K">>, <<"S","V">>, <<"J","Z","R">>,
             <<"J","9">>, <<"O","Z">>}
AIRLINE_ICAO_TO_NAME(k) ==
    CASE k = <<"A","A","P">> -> "Air Academy Pakistan"
      [] k = <<"P","K">> -> "Pakistan International Airline"
      [] k = <<"S","V">> -> "Saudi Airline"
      [] k = <<"J","Z","R">> -> "Jazeera Airways"
      [] k = <<"J","9">> -> "Jazeera Airyways"
      [] k = <<"O","Z">> -> "Asiana Airlines"

\* the text of CarrierICAOCode in an envelope (<< >>: no such tag): listed
\* codes and one that is not
CarrierICAOCodes == IcaoKeys \cup {<<"X","X","X">>, << >>}
\* the text of CarrierIATACode in an envelope
CarrierIATACodes == {<<"P","K">>, <<"X","X">>, << >>}

\* parse_xml_file for one envelope with these carrier tags
ParsedRecord(icao, iataTag) ==
    [carrier_icao |-> icao,
     carrier_iata |->
        IF icao \in IcaoKeys THEN AIRLINE_ICAO_TO_IATA(icao) ELSE iataTag,
     carrier_name |->
        IF icao \in NameKeys THEN AIRLINE_ICAO_TO_NAME(icao) ELSE ""]

\* "Parse & Index All Files" parses an envelope.
XmlParse(icao, iataTag) ==
    /\ script = "xml"
    /\ apc = "idle"
    /\ record' = ParsedRecord(icao, iataTag)
    /\ UNCHANGED <<runvars, webvars, ingvars, docvars, othervars>>

NextXml ==
    \E icao \in CarrierICAOCodes, iataTag \in CarrierIATACodes :
        XmlParse(icao, iataTag)

\* --- rag_docs_admin ---

\* the variables rag_docs_admin does not touch
nondoc == <<webvars, ingvars, record, othervars>>

\* two files of rag_docs_data and the selections of the multiselect
DocSelections ==
    {<< >>, <<"baggage.pdf">>, <<"policy.txt">>, <<"baggage.pdf", "policy.txt">>}
\* len(text) of a pdf page, len(content) of a text file
DocLens == {30, 900}

\* file_name.lower().endswith('.pdf')
IsPdf(file_name) == file_name = "baggage.pdf"

\* the objects batch.add_object adds for a file of one page or one content
\* of n characters: a pdf page with less than 50 characters is skipped
DocObjectsOf(file_name, n) ==
    LET cs == ChunksAt(IF IsPdf(file_name) THEN "pdf" ELSE "text", n) IN
    IF IsPdf(file_name) /\ n < 50 THEN {}
    ELSE {[source |-> file_name, from |-> cs[k].from, to |-> cs[k].to] :
             k \in DOMAIN cs}

\* "Index Knowledge Base" is pressed with sel picked: without a file an
\* error is shown, with one the script connects.
DocsStart(sel) ==
    /\ script = "docs"
    /\ apc = "idle"
    /\ selected' = sel
    /\ fileIdx' = 0
    /\ IF sel = << >>
       THEN /\ exitPath' = "end"
            /\ UNCHANGED <<apc, client, closes>>
       ELSE /\ apc' = "recreate"
            /\ client' = "open"
            /\ closes' = 0
            /\ exitPath' = "none"
    /\ UNCHANGED <<script, lateOp, astore, nondoc>>

\* PAAPolicy is deleted if it exists and created.
DocsRecreate ==
    /\ apc = "recreate"
    /\ IssueOp
    /\ astore' = [astore EXCEPT !["PAAPolicy"] = Coll({})]
    /\ apc' = "files"
    /\ UNCHANGED <<script, client, closes, exitPath, docvars, nondoc>>

\* A store call of the re-creation raises, before or after the delete: the
\* try statement has no except clause.
DocsRecreateFail ==
    /\ apc = "recreate"
    /\ IssueOp
    /\ astore' \in {astore, [astore EXCEPT !["PAAPolicy"] = Absent]}
    /\ exitPath' = "error"
    /\ apc' = "finally"
    /\ UNCHANGED <<script, client, closes, docvars, nondoc>>

\* One file is read, chunked and added.
DocsFileOk ==
    /\ apc = "files"
    /\ fileIdx < Len(selected)
    /\ IssueOp
    /\ \E n \in DocLens :
          astore' = [astore EXCEPT !["PAAPolicy"].objects =
                        @ \cup DocObjectsOf(selected[fileIdx + 1], n)]
    /\ fileIdx' = fileIdx + 1
    /\ UNCHANGED <<script, apc, client, closes, exitPath, selected, nondoc>>

\* Reading or adding a file raises: the inner except shows the error and
\* the loop goes on.
DocsFileFail ==
    /\ apc = "files"
    /\ fileIdx < Len(selected)
    /\ fileIdx' = fileIdx + 1
    /\ UNCHANGED <<runvars, selected, nondoc>>

\* The loop is over: st.success ends the try block.
DocsDone ==
    /\ apc = "files"
    /\ fileIdx = Len(selected)
    /\ exitPath' = "end"
    /\ apc' = "finally"
    /\ UNCHANGED <<script, client, closes, lateOp, astore, docvars, nondoc>>

DocsClose == script = "docs" /\ AdminClose /\ UNCHANGED <<docvars, nondoc>>

NextDocs ==
    \/ \E sel \in DocSelections : DocsStart(sel)
    \/ DocsRecreate
    \/ DocsRecreateFail
    \/ DocsFileOk
    \/ DocsFileFail
    \/ DocsDone
    \/ DocsClose

InitAdmin ==
    /\ XRest
    /\ ChunkRest
    /\ AppInit
    /\ script \in {"web", "ingest", "xml", "docs"}
    /\ RunRest
    /\ astore = OldStore
    /\ xmlFile \in IF script = "ingest" THEN XmlFiles ELSE {NoXmlFile}
    /\ ScriptsRest

NextAdmin == NextWeb \/ NextIngest \/ NextXml \/ NextDocs

SpecAdmin == InitAdmin /\ [][NextAdmin]_vars

\* C22: in the web admin every url in processed_links has chunks in the
\* RAG2_Web collection, after any sequence of indexing runs of the session
\* the last of which ran to its end.
\* (Violated: a run with "Delete existing Web Data" ticked deletes the
\* collection and leaves the marks of the urls it does not index again.)
C22_MarkedUrlsAreStored ==
    (script = "web" /\ apc = "idle" /\ exitPath = "rerun") =>
        \A u \in processed_links :
            \E o \in astore["RAG2_Web"].objects : o.source = u

\* the links the batch under way holds: the loop has no batch boundary, so
\* every link it is through belongs to the one batch of the run
LinksInBatch == linkIdx

\* C23: an indexing run processes the selected links in batches of at most
\* batch_size links.  (Violated: batch_size is read from the slider and
\* never used; the loop goes through all selected links in one pass.)
C23_BatchWithinSize ==
    script = "web" => LinksInBatch <= batch_size

\* C25: the wipe-and-sync operation deletes the collections only once new
\* data is known to be there: when flight_records.xml is missing, or holds
\* no flight-data block, the run stops with an error and the data stored
\* before is still in the store.  (Violated for a file without a block: the
\* wipe loop runs before the file is read.)
C25_NoDataNoWipe ==
    (/\ script = "ingest"
     /\ exitPath = "stop"
     /\ ~xmlFile.exists \/ xmlFile.blocks = << >>) =>
        astore = OldStore

\* the text of a tag counts as a value when something is left after strip()
HasValue(t) == t.present /\ Strip(t.text) # << >>

\* C26: the flight identifier of a block's summary is the FlightIdentity
\* value when that tag is present and non-empty, otherwise the FlightNumber
\* value when that tag is present and non-empty, and "TBD" only when both
\* are absent or empty.  (Violated: get_val returns "TBD", which is truthy,
\* for an absent or empty FlightIdentity, so FlightNumber is not looked at.)
C26_FlightIdFallsBackToNumber ==
    \A k \in DOMAIN summaries :
        LET b == summaries[k].block IN
        summaries[k].f_id =
            IF HasValue(b.FlightIdentity) THEN Strip(b.FlightIdentity.text)
            ELSE IF HasValue(b.FlightNumber) THEN Strip(b.FlightNumber.text)
            ELSE TBD

\* C27: for every carrier ICAO code listed in AIRLINE_ICAO_TO_IATA,
\* parse_xml_file sets carrier_name to the airline's name as given by the
\* ICAO -> IATA -> name tables ("PIA" yields "Pakistan International
\* Airline"), and carrier_name is empty only for codes the tables do not
\* hold.  (Violated: the name table, keyed by IATA codes for most airlines,
\* is looked up with the ICAO code.)
C27_CarrierNameViaTables ==
    (script = "xml" /\ record # NoRecord) =>
        IF record.carrier_icao \in IcaoKeys
        THEN /\ AIRLINE_ICAO_TO_IATA(record.carrier_icao) \in NameKeys
             /\ record.carrier_name =
                   AIRLINE_ICAO_TO_NAME(AIRLINE_ICAO_TO_IATA(record.carrier_icao))
        ELSE record.carrier_name = ""

\* the scripts whose button handlers close their client in a finally clause
ClosingScripts == {"web", "ingest", "docs"}

\* C28: in admin_ingest, rag_docs_admin and rag_web_admin a client that was
\* connected is closed exactly once on every exit path of the run (success,
\* a caught or uncaught error, st.stop(), st.rerun()): it is open with no
\* close while the run is under way, closed with one close when the run is
\* over, and no store operation is issued on a client that is not open.
C28_ClientClosedOnce ==
    script \in ClosingScripts =>
        /\ apc # "idle" => client = "open" /\ closes = 0
        /\ (apc = "idle" /\ client # "none") => client = "closed" /\ closes = 1
        /\ (apc = "idle" /\ exitPath \in {"rerun", "caught", "error"}) =>
              client = "closed"
        /\ ~lateOp

\* the wipe and sync stopped at st.stop() inside its try statement, after
\* store operations, and the client is closed
C28_Witness ==
    /\ script = "ingest"
    /\ apc = "idle"
    /\ exitPath = "stop"
    /\ xmlFile.exists
    /\ client = "closed"
    /\ closes = 1
    /\ astore # OldStore

=============================================================================
